---- MODULE Spec2Model ----
(***************************************************************************)
(* klarity: UncertaintyEstimator (src/src/klarity/estimator.py) and the    *)
(* result records of src/src/klarity/models.py.                            *)
(*                                                                         *)
(* Numbers.  Log-probabilities and logits are integers in units of ln 2,   *)
(* probabilities are fixed-point with ONE standing for 1.0, so that        *)
(* exp(x) is ONE * 2^x and is exact on the sampled inputs.                 *)
(***************************************************************************)
EXTENDS Integers, Sequences, FiniteSets, TLC

None == "None"        \* Python's None
Absent == "Absent"    \* an attribute / field the object does not have

-----------------------------------------------------------------------------
(* Bounds of the model *)
MaxTopK == 3          \* the caller requests top_k in 0..MaxTopK
Vocab == 2            \* vocabulary size of the local model's score tensors
MaxSteps == 2         \* steps of one served or remote output
MaxTokens == 1        \* tokens one local generation emits
MaxCands == 2         \* candidates a serving engine supplies for one step
MaxProcs == 1         \* logits processors handed out
MaxGens == 2          \* local generations run
MaxCalls == 2         \* analyze_generation calls in a row, per thread
NumThreads == 2       \* threads that share one estimator
MaxWaits == 2         \* the benchmark's num_waits is in -1..MaxWaits
MaxPrompts == 2       \* prompts of one query_with_extra_wait call

(* Program constants *)
TOGETHER_CAP == 5     \* "max log probs provided by the api"
ONE == 64             \* fixed-point 1.0 of a probability
THINK_END_STR == "</think>"

-----------------------------------------------------------------------------
(* Small helpers *)
RECURSIVE SumSeq(_)
SumSeq(s) == IF s = <<>> THEN 0 ELSE Head(s) + SumSeq(Tail(s))

Min(a, b) == IF a <= b THEN a ELSE b

\* s[:k] of a Python list, k >= 0
Prefix(s, k) == SubSeq(s, 1, Min(k, Len(s)))

\* Python truthiness of an Optional[str]
Truthy(x) == x \notin {None, ""}

\* math.exp / np.exp on a log-probability x <= 0 (units of ln 2)
Exp(x) == ONE \div (2 ^ (0 - x))

RECURSIVE Log2Floor(_)
Log2Floor(n) == IF n <= 1 THEN 0 ELSE 1 + Log2Floor(n \div 2)

\* -p*log(p) of one probability (fixed point, units of ln 2 / ONE)
ShannonTerm(p) == IF p = 0 THEN 0 ELSE p * (Log2Floor(ONE) - Log2Floor(p))

-----------------------------------------------------------------------------
VARIABLES
  top_k,            \* self.top_k
  analyzer,         \* self.analyzer: None, "Entropy" or "VLM"
  together_model,   \* self.together_model
  ctor_top_k,       \* the top_k argument __init__ was called with
  patch_size,       \* self.analyzer.patch_size (Absent, None or a value)
  set_calls,        \* number of calls of analyzer.set_vision_config
  processors,       \* captured_logits of every UncertaintyLogitsProcessor
  gens,             \* local generations: the processor and the score tensors
  last,             \* the latest analyze_generation call and its outcome
  vision_config,    \* self.analyzer.vision_config (Absent or a value)
  pc,               \* per thread: where its analyze_generation call stands
  \* VLLMClient.query_with_extra_wait (reasoning_budget_control.py)
  stop,             \* sampling_params.stop
  num_waits,        \* the num_waits argument
  prompts,          \* the prompts argument
  ind,              \* index of the prompt being worked on
  wait_ind,         \* index of the round being run
  input_text,       \* "str" or "list": what input_text holds
  generated_texts,  \* whether generated_texts is bound
  rounds,           \* the model.generate calls made, oldest first
  qpc               \* "idle", "loop", "done" or "raised"

bench_vars == <<stop, num_waits, prompts, ind, wait_ind, input_text,
                generated_texts, rounds, qpc>>

vars == <<top_k, analyzer, together_model, ctor_top_k, patch_size, set_calls,
          processors, gens, last, vision_config, pc, bench_vars>>

config == <<top_k, analyzer, together_model, ctor_top_k>>

-----------------------------------------------------------------------------
(* models.py: the result records *)

TokenInfo(token, token_id, logit, probability) ==
  [token |-> token, token_id |-> token_id, logit |-> logit,
   probability |-> probability]

UncertaintyMetrics(raw_entropy, semantic_entropy, token_predictions) ==
  [raw_entropy |-> raw_entropy, semantic_entropy |-> semantic_entropy,
   token_predictions |-> token_predictions, insight |-> None]

\* A pydantic BaseModel keeps the declared fields and ignores any other
\* keyword: the class declares token_metrics and overall_insight only.
UncertaintyAnalysisResult(token_metrics, overall_insight, attention_data) ==
  [token_metrics |-> token_metrics, overall_insight |-> overall_insight]

-----------------------------------------------------------------------------
(* Collaborators outside estimator.py *)

\* tokenizer.decode of one token id, as a text <<"tok", id>>; id 0 is the
\* special token, which skip_special_tokens=True drops (the empty text)
Decode(token_id, skip_special_tokens) ==
  IF skip_special_tokens /\ token_id = 0 THEN <<>> ELSE <<"tok", token_id>>

\* EntropyAnalyzer._calculate_raw_entropy: Shannon entropy of the candidates
_calculate_raw_entropy(probs) ==
  SumSeq([i \in 1..Len(probs) |-> ShannonTerm(probs[i])])

\* EntropyAnalyzer._calculate_semantic_entropy: Shannon entropy of the
\* probability mass per cluster; token ids 2c and 2c+1 form cluster c
_calculate_semantic_entropy(token_info) ==
  LET clusters == {token_info[i].token_id \div 2 : i \in 1..Len(token_info)}
      mass(c) == SumSeq([i \in 1..Len(token_info) |->
                   IF token_info[i].token_id \div 2 = c
                   THEN token_info[i].probability ELSE 0])
      RECURSIVE total(_)
      total(S) == IF S = {} THEN 0
                  ELSE LET c == CHOOSE x \in S : TRUE
                       IN ShannonTerm(Min(mass(c), ONE)) + total(S \ {c})
  IN total(clusters)

\* VLMAnalyzer.process_attention_maps: the attention payload
process_attention_maps(attentions, tokens) ==
  [attentions |-> attentions, tokens |-> tokens]

\* VLMAnalyzer.set_vision_config: the attributes it sets on the analyzer,
\* the configuration it was given and the patch size taken from it
set_vision_config(config_of_model) ==
  [vision_config |-> config_of_model, patch_size |-> "patch"]

\* What a call of analyzer.generate_overall_insight can do: return the
\* backend's text, or raise
InsightOutcomes == {"text", "raise"}

-----------------------------------------------------------------------------
(* UncertaintyEstimator.__init__ *)

\* faulty variant: the cap of the remote API is not applied
InitTopKUncapped(requested, model_id) == requested

InitTopK(requested, model_id) ==
  IF Truthy(model_id) THEN TOGETHER_CAP ELSE requested

-----------------------------------------------------------------------------
(* UncertaintyEstimator._process_logits *)

\* torch.softmax(logits, dim=-1) of one score vector
Softmax(logits) ==
  LET w == [i \in 1..Len(logits) |-> 2 ^ logits[i]]
  IN [i \in 1..Len(logits) |-> (ONE * w[i]) \div SumSeq(w)]

\* torch.topk(probs, k).indices for 0 <= k <= len(probs): the k largest, in
\* descending order (the score vectors of the model have no ties)
RECURSIVE TopKIndices(_, _, _)
TopKIndices(probs, k, taken) ==
  IF k = 0 THEN <<>>
  ELSE LET rest == (1..Len(probs)) \ taken
           best == CHOOSE i \in rest : \A j \in rest :
                     probs[i] > probs[j] \/ (probs[i] = probs[j] /\ i <= j)
       IN <<best>> \o TopKIndices(probs, k - 1, taken \cup {best})

\* [raised, token_info]: torch.topk raises RuntimeError ("selected index k
\* out of range") when k exceeds the size of the vector
_process_logits(logits, k) ==
  IF k > Len(logits) \/ k < 0
  THEN [raised |-> "RuntimeError", token_info |-> <<>>]
  ELSE LET probs == Softmax(logits)
           idx == TopKIndices(probs, k, {})
       IN [raised |-> None,
           token_info |-> [n \in 1..k |->
              TokenInfo(Decode(idx[n] - 1, FALSE), idx[n] - 1,
                        logits[idx[n]], probs[idx[n]])]]

\* faulty variant: the log-probability is passed on as the probability
LogprobAsProbability(logprob) == logprob

\* UncertaintyEstimator._process_together_logprob
_process_together_logprob(logprob) == Exp(logprob)

-----------------------------------------------------------------------------
(* analyze_generation: the per-step loops of the four paths.  Each gives    *)
(* [raised, metrics]: the exception that ended the loop (None when it ran   *)
(* to its end) and all_metrics as it stood then.                            *)

Probabilities(token_info) ==
  [i \in 1..Len(token_info) |-> token_info[i].probability]

\* estimator.py 122-130 and 207-215: one UncertaintyMetrics per score tensor
RECURSIVE DenseSteps(_, _, _, _)
DenseSteps(scores, k, an, acc) ==
  IF scores = <<>> THEN [raised |-> None, metrics |-> acc]
  ELSE LET pl == _process_logits(Head(scores), k)
       IN IF pl.raised # None THEN [raised |-> pl.raised, metrics |-> acc]
          ELSE IF an = None THEN [raised |-> "AttributeError", metrics |-> acc]
          ELSE DenseSteps(Tail(scores), k, an, Append(acc,
                 UncertaintyMetrics(
                   _calculate_raw_entropy(Probabilities(pl.token_info)),
                   _calculate_semantic_entropy(pl.token_info),
                   pl.token_info)))

\* faulty variant: equal keys come out in reverse insertion order
RECURSIVE SortByLogprobDescUnstable(_)
SortByLogprobDescUnstable(items) ==
  IF items = <<>> THEN <<>>
  ELSE LET n == Len(items)
           sorted == SortByLogprobDescUnstable(SubSeq(items, 1, n - 1))
           x == items[n]
           keep == Cardinality({i \in 1..Len(sorted) :
                                 sorted[i].logprob > x.logprob})
       IN SubSeq(sorted, 1, keep) \o <<x>> \o
          SubSeq(sorted, keep + 1, Len(sorted))

\* list.sort(key=logprob, reverse=True): stable, equal keys keep their order
RECURSIVE SortByLogprobDesc(_)
SortByLogprobDesc(items) ==
  IF items = <<>> THEN <<>>
  ELSE LET n == Len(items)
           sorted == SortByLogprobDesc(SubSeq(items, 1, n - 1))
           x == items[n]
           keep == Cardinality({i \in 1..Len(sorted) :
                                 sorted[i].logprob >= x.logprob})
       IN SubSeq(sorted, 1, keep) \o <<x>> \o
          SubSeq(sorted, keep + 1, Len(sorted))

\* faulty variant: the sorted candidates are not cut to top_k
VllmTokenInfoUncut(token_data, k) ==
  LET kept == SortByLogprobDesc(token_data)
  IN [i \in 1..Len(kept) |->
        TokenInfo(Decode(kept[i].token_id, FALSE), kept[i].token_id,
                  kept[i].logprob, Exp(kept[i].logprob))]

\* estimator.py 140-153: the candidates of one step of a serving engine
VllmTokenInfo(token_data, k) ==
  LET logprobs_items == SortByLogprobDesc(token_data)
      kept == Prefix(logprobs_items, k)
  IN [i \in 1..Len(kept) |->
        TokenInfo(Decode(kept[i].token_id, FALSE), kept[i].token_id,
                  kept[i].logprob, Exp(kept[i].logprob))]

\* faulty variant: a step without candidates is emitted, with entropy 0
RECURSIVE VllmStepsEmitEmpty(_, _, _, _)
VllmStepsEmitEmpty(logprobs_data, k, an, acc) ==
  IF logprobs_data = <<>> THEN [raised |-> None, metrics |-> acc]
  ELSE LET token_info == VllmTokenInfo(Head(logprobs_data), k)
       IN VllmStepsEmitEmpty(Tail(logprobs_data), k, an,
            Append(acc, UncertaintyMetrics(
                          _calculate_raw_entropy(Probabilities(token_info)),
                          IF an # None
                          THEN _calculate_semantic_entropy(token_info) ELSE 0,
                          token_info)))

\* estimator.py 138-171
RECURSIVE VllmSteps(_, _, _, _)
VllmSteps(logprobs_data, k, an, acc) ==
  IF logprobs_data = <<>> THEN [raised |-> None, metrics |-> acc]
  ELSE LET token_info == VllmTokenInfo(Head(logprobs_data), k)
           probs == Probabilities(token_info)
           raw_entropy == IF an # None THEN _calculate_raw_entropy(probs)
                          ELSE SumSeq([i \in 1..Len(probs) |->
                                        ShannonTerm(probs[i])])
           semantic_entropy ==
             IF an # None THEN _calculate_semantic_entropy(token_info) ELSE 0
       IN VllmSteps(Tail(logprobs_data), k, an,
            IF token_info # <<>>
            THEN Append(acc, UncertaintyMetrics(raw_entropy, semantic_entropy,
                                                token_info))
            ELSE acc)

\* estimator.py 175-198
TogetherSteps(remote) ==
  [raised |-> None,
   metrics |-> [step \in 1..Len(remote.tokens) |->
     LET prob == _process_together_logprob(remote.token_logprobs[step])
         uncertainty_score == ONE - prob
     IN UncertaintyMetrics(uncertainty_score, 0,
          <<TokenInfo(remote.tokens[step], remote.token_ids[step],
                      remote.token_logprobs[step], prob)>>)]]

-----------------------------------------------------------------------------
(* analyze_generation *)

hasattr(obj, name) == name \in obj.attrs

\* estimator.py 100
IsVlm(generation_output, an) ==
  hasattr(generation_output, "attentions") /\ an = "VLM"

\* faulty variant: the outputs field is looked at before the attentions field
PathOutputsFirst(generation_output, an, model_id) ==
  IF hasattr(generation_output, "outputs") THEN "vllm"
  ELSE IF IsVlm(generation_output, an) THEN "vlm"
  ELSE IF Truthy(model_id) THEN "together"
  ELSE "hf"

\* estimator.py 102, 134, 174, 201: the branch that processes the output
Path(generation_output, an, model_id) ==
  IF IsVlm(generation_output, an) THEN "vlm"
  ELSE IF hasattr(generation_output, "outputs") THEN "vllm"
  ELSE IF Truthy(model_id) THEN "together"
  ELSE "hf"

\* faulty variant: the initialisation runs on every call
NeedsVisionConfigAlways(ps) == TRUE

\* estimator.py 103: the lazy initialisation is due
NeedsVisionConfig(ps) == ps = Absent \/ ps = None

\* estimator.py 104: model.config.vision_config
ModelVisionConfig(model) == "config"

\* the score tensors a logits processor captured, oldest first
CapturedLogits(p) == [i \in 1..Len(processors[p]) |->
                        gens[processors[p][i].gen].steps[processors[p][i].step]]

Failed(err, metrics) == [raised |-> err, metrics |-> metrics]

\* estimator.py 102-130: [raised, metrics, attention_data]
VlmBody(out, model, tokenizer, processor, ps, k, an) ==
  IF NeedsVisionConfig(ps) /\ model = None
  THEN [raised |-> "AttributeError", metrics |-> <<>>, attention_data |-> <<>>]
  ELSE IF ~hasattr(out, "sequences") \/ tokenizer = None
  THEN [raised |-> "AttributeError", metrics |-> <<>>, attention_data |-> <<>>]
  ELSE LET input_length == IF processor.kind = "inputs"
                           THEN processor.input_length ELSE 0
           generated_tokens == SubSeq(out.sequences, input_length + 1,
                                      Len(out.sequences))
           tokens == SelectSeq(
                       [i \in 1..Len(generated_tokens) |->
                          Decode(generated_tokens[i], TRUE)],
                       LAMBDA t : t # <<>>)
           attention_data == process_attention_maps(out.attentions, tokens)
           steps == IF hasattr(out, "scores")
                    THEN DenseSteps(out.scores, k, an, <<>>)
                    ELSE Failed(None, <<>>)
       IN [raised |-> steps.raised, metrics |-> steps.metrics,
           attention_data |-> <<attention_data>>]

\* estimator.py 134-171
VllmBody(out, k, an) ==
  LET logprobs_data == out.logprobs_data
  IN IF logprobs_data # <<>> THEN VllmSteps(logprobs_data, k, an, <<>>)
     ELSE Failed(None, <<>>)

\* estimator.py 174-198
TogetherBody(out) ==
  IF ~out.isdict THEN Failed("TypeError", <<>>) ELSE TogetherSteps(out.remote)

\* faulty variant: the check of tokenizer and processor is missing
HfBodyUnchecked(out, tokenizer, processor, k, an) ==
  IF ~hasattr(out, "sequences") \/ processor.kind # "logits"
  THEN Failed("AttributeError", <<>>)
  ELSE DenseSteps(CapturedLogits(processor.id), k, an, <<>>)

\* estimator.py 201-215
HfBody(out, tokenizer, processor, k, an) ==
  IF tokenizer = None \/ processor.kind = "None"
  THEN Failed("ValueError", <<>>)
  ELSE IF ~hasattr(out, "sequences") \/ processor.kind # "logits"
  THEN Failed("AttributeError", <<>>)
  ELSE DenseSteps(CapturedLogits(processor.id), k, an, <<>>)

\* estimator.py 86-231: what one call does, as a record
Analysis(out, model, tokenizer, processor, insight) ==
  LET path == Path(out, analyzer, together_model)
      is_vlm == IsVlm(out, analyzer)
      body == CASE path = "vlm" ->
                     VlmBody(out, model, tokenizer, processor, patch_size,
                             top_k, analyzer)
                [] path = "vllm" ->
                     VllmBody(out, top_k, analyzer) @@ [attention_data |-> <<>>]
                [] path = "together" ->
                     TogetherBody(out) @@ [attention_data |-> <<>>]
                [] OTHER ->
                     HfBody(out, tokenizer, processor, top_k, analyzer)
                       @@ [attention_data |-> <<>>]
      reached == body.raised = None            \* line 217 is reached
      insight_called == reached /\ analyzer # None
      raised == IF ~reached THEN body.raised
                ELSE IF analyzer = None THEN "AttributeError"
                ELSE IF insight = "raise" THEN "InsightError"
                ELSE None
  IN [path |-> path,
      raised |-> raised,
      metrics |-> body.metrics,
      insight_called |-> insight_called,
      attention_data |-> body.attention_data,
      set_vision_config |-> path = "vlm" /\ NeedsVisionConfig(patch_size)
                              /\ model # None,
      result |-> IF raised # None THEN <<>>
                 ELSE <<UncertaintyAnalysisResult(body.metrics, insight,
                          IF is_vlm THEN body.attention_data ELSE <<>>)>>]

-----------------------------------------------------------------------------
(* The values a caller passes *)

NoProcessor == [kind |-> "None"]
\* an encoded-inputs object: it has input_ids, of the prompt's length
EncodedInputs == [kind |-> "inputs", input_length |-> 1]
LogitsProcessor(p) == [kind |-> "logits", id |-> p]

Prompt == <<0>>      \* the prompt's token ids: the special token

\* the score tensor the local model produces at step i (no two entries tie)
StepScores(i) == [v \in 1..Vocab |-> (v + i) % Vocab]

\* the token the local model emits for a score tensor (greedy)
Sampled(logits) == TopKIndices(Softmax(logits), 1, {})[1] - 1

NoOutput ==
  [attrs |-> {}, isdict |-> FALSE, gen |-> 0, sequences |-> <<>>,
   scores |-> <<>>, attentions |-> <<>>, logprobs_data |-> <<>>,
   remote |-> [tokens |-> <<>>, token_logprobs |-> <<>>, token_ids |-> <<>>]]

\* model.generate(..., logits_processor=[p], return_dict_in_generate=True,
\* output_scores=sc, output_attentions=at): the output of generation g
LocalOutput(g, at, sc) ==
  [NoOutput EXCEPT
     !.attrs = {"sequences"} \cup (IF at THEN {"attentions"} ELSE {})
                             \cup (IF sc THEN {"scores"} ELSE {}),
     !.gen = g,
     !.sequences = Prompt \o [i \in 1..Len(gens[g].steps) |->
                                Sampled(gens[g].steps[i])],
     !.scores = IF sc THEN gens[g].steps ELSE <<>>,
     !.attentions = IF at THEN <<"attn", g>> ELSE <<>>]

LogProbs == {-2, -1}

\* a step of a serving engine: token id -> logprob, in insertion order; the
\* n-th token a step inserts has id n - 1
Mappings(lps) ==
  UNION {{[i \in 1..n |-> [token_id |-> i - 1, logprob |-> l[i]]] :
            l \in [1..n -> lps]} :
         n \in 0..MaxCands}

\* RequestOutput of a serving engine; at: it also has an attentions field
ServedOutput(logprobs_data, at) ==
  [NoOutput EXCEPT
     !.attrs = {"outputs"} \cup (IF at THEN {"attentions"} ELSE {}),
     !.logprobs_data = logprobs_data,
     !.attentions = IF at THEN <<"attn", 0>> ELSE <<>>]

ServedOutputs(lps, steps, ats) ==
  {ServedOutput(d, at) :
     d \in UNION {[1..n -> Mappings(lps)] : n \in 0..steps}, at \in ats}

\* the dict _generate_with_together returns (estimator.py 79-84)
RemoteOutput(token_ids, token_logprobs) ==
  [NoOutput EXCEPT
     !.isdict = TRUE,
     !.remote = [tokens |-> [i \in 1..Len(token_ids) |->
                               Decode(token_ids[i], FALSE)],
                 token_logprobs |-> token_logprobs,
                 token_ids |-> token_ids]]

\* the i-th emitted token has id i
RemoteOutputs(logprobs) ==
  UNION {{RemoteOutput([i \in 1..n |-> i], lps) : lps \in [1..n -> logprobs]} :
         n \in 0..MaxSteps}

-----------------------------------------------------------------------------------------------------------------------------------------------------
(* State machine.  A behaviour follows one estimator up to its first        *)
(* analyze_generation call: a call reads the configuration, patch_size, the *)
(* processors and its arguments only, and every patch_size a call can leave *)
(* is an initial state too.                                                 *)

NoCall == [called |-> FALSE]

Threads == 1..NumThreads

\* no query_with_extra_wait call was made: sampling_params is SamplingParams()
BenchIdle ==
  /\ stop = None
  /\ num_waits = 0
  /\ prompts = <<>>
  /\ ind = 0
  /\ wait_ind = 0
  /\ input_text = "str"
  /\ generated_texts = FALSE
  /\ rounds = <<>>
  /\ qpc = "idle"

Init ==
  /\ ctor_top_k \in 0..MaxTopK
  /\ together_model \in {None, "", "model-id"}
  /\ analyzer \in {None, "Entropy", "VLM"}
  /\ top_k = InitTopK(ctor_top_k, together_model)
  /\ patch_size \in (IF analyzer = "VLM" THEN {Absent, None, "patch"}
                     ELSE {Absent})
  /\ vision_config = IF patch_size = "patch" THEN "config" ELSE Absent
  /\ set_calls = 0
  /\ processors = <<>>
  /\ gens = <<>>
  /\ last = NoCall
  /\ pc = [t \in Threads |-> "idle"]
  /\ BenchIdle

\* estimator.py 36-38 (and 13-15)
GetLogitsProcessor ==
  /\ ~last.called
  /\ Len(processors) < MaxProcs
  /\ processors' = Append(processors, <<>>)
  /\ UNCHANGED <<config, patch_size, set_calls, gens, last>>
  /\ UNCHANGED <<vision_config, pc, bench_vars>>

\* model.generate(..., logits_processor=LogitsProcessorList([p])) starts,
\* with the processor handed out last
BeginGenerate ==
  /\ ~last.called
  /\ processors # <<>>
  /\ Len(gens) < MaxGens
  /\ gens' = Append(gens, [proc |-> Len(processors), steps |-> <<>>])
  /\ UNCHANGED <<config, patch_size, set_calls, processors, last>>
  /\ UNCHANGED <<vision_config, pc, bench_vars>>

\* estimator.py 17-19: a step of the running generation calls its processor
ProcessorCall ==
  /\ ~last.called
  /\ gens # <<>>
  /\ LET g == Len(gens)
         i == Len(gens[g].steps) + 1
         scores == StepScores(i)
     IN /\ i <= MaxTokens
        /\ gens' = [gens EXCEPT ![g].steps = Append(@, scores)]
        /\ processors' = [processors EXCEPT ![gens[g].proc] =
                            Append(@, [gen |-> g, step |-> i])]
  /\ UNCHANGED <<config, patch_size, set_calls, last>>
  /\ UNCHANGED <<vision_config, pc, bench_vars>>

\* estimator.py 86-231
AnalyzeGeneration(generation_output, model, tokenizer, processor, insight) ==
  /\ last' = [called |-> TRUE, output |-> generation_output,
              model |-> model, tokenizer |-> tokenizer,
              processor |-> processor, insight |-> insight,
              captured |-> IF processor.kind = "logits"
                           THEN processors[processor.id] ELSE <<>>]
               @@ Analysis(generation_output, model, tokenizer, processor,
                           insight)
  /\ patch_size' = IF last'.set_vision_config
                   THEN set_vision_config(ModelVisionConfig(model)).patch_size
                   ELSE patch_size
  /\ vision_config' =
       IF last'.set_vision_config
       THEN set_vision_config(ModelVisionConfig(model)).vision_config
       ELSE vision_config
  /\ set_calls' = IF last'.set_vision_config THEN set_calls + 1
                  ELSE set_calls
  /\ UNCHANGED <<config, processors, gens, pc, bench_vars>>

CallArgs(model, tokenizer, processor) ==
  [model |-> model, tokenizer |-> tokenizer, processor |-> processor]

\* the optional arguments of a call after a local generation that used
\* processor p
LocalCallArgs(p) ==
  {CallArgs(None, None, NoProcessor),
   CallArgs(None, "tokenizer", NoProcessor),
   CallArgs(None, None, LogitsProcessor(p)),
   CallArgs(None, "tokenizer", LogitsProcessor(p)),
   CallArgs("model", "tokenizer", LogitsProcessor(p)),
   CallArgs("model", "tokenizer", EncodedInputs)}

\* analyze_generation of the output of the latest local generation
AnalyzeLocal ==
  /\ ~last.called
  /\ gens # <<>>
  /\ \E flags \in {<<FALSE, FALSE>>, <<TRUE, FALSE>>, <<TRUE, TRUE>>},
        args \in LocalCallArgs(gens[Len(gens)].proc),
        insight \in InsightOutcomes :
       AnalyzeGeneration(LocalOutput(Len(gens), flags[1], flags[2]),
                         args.model, args.tokenizer, args.processor, insight)

\* analyze_generation(output) of a served output
AnalyzeServed ==
  /\ ~last.called
  /\ \E out \in ServedOutputs({-1}, 1, BOOLEAN),
        insight \in InsightOutcomes :
       AnalyzeGeneration(out, None, None, NoProcessor, insight)

\* analyze_generation(output) of a remote output
AnalyzeRemote ==
  /\ ~last.called
  /\ \E out \in RemoteOutputs({-1}), insight \in InsightOutcomes :
       AnalyzeGeneration(out, None, None, NoProcessor, insight)

Next ==
  \/ GetLogitsProcessor
  \/ BeginGenerate
  \/ ProcessorCall
  \/ AnalyzeLocal
  \/ AnalyzeServed
  \/ AnalyzeRemote

Spec == Init /\ [][Next]_vars

\* The serving-engine path alone, over every output within the bounds
NextServed ==
  /\ ~last.called
  /\ \E out \in ServedOutputs(LogProbs, MaxSteps, {FALSE}),
        insight \in InsightOutcomes :
       AnalyzeGeneration(out, None, None, NoProcessor, insight)

InitServed == Init /\ (analyzer = "VLM" => patch_size = "patch")

SpecServed == InitServed /\ [][NextServed]_vars

\* The remote path alone, over every output within the bounds
NextRemote ==
  /\ ~last.called
  /\ \E out \in RemoteOutputs(LogProbs \cup {0}),
        insight \in InsightOutcomes :
       AnalyzeGeneration(out, None, None, NoProcessor, insight)

SpecRemote == InitServed /\ [][NextRemote]_vars

-----------------------------------------------------------------------------
(* analyze_generation calls one after another on a vision-language        *)
(* estimator                                                              *)

\* the output of a local vision-language generation of one token
VlmOutput(sc) ==
  [NoOutput EXCEPT
     !.attrs = {"sequences", "attentions"} \cup (IF sc THEN {"scores"} ELSE {}),
     !.sequences = Prompt \o <<Sampled(StepScores(1))>>,
     !.scores = IF sc THEN <<StepScores(1)>> ELSE <<>>,
     !.attentions = <<"attn", 1>>]

NextVlmCalls ==
  /\ set_calls < MaxCalls
  /\ \E sc \in BOOLEAN, model \in {None, "model"},
        tokenizer \in {None, "tokenizer"}, insight \in InsightOutcomes :
       AnalyzeGeneration(VlmOutput(sc), model, tokenizer, EncodedInputs,
                         insight)

InitVlm == Init /\ analyzer = "VLM"

SpecVlmCalls == InitVlm /\ [][NextVlmCalls]_vars

-----------------------------------------------------------------------------
(* Threads that call analyze_generation on one vision-language estimator:   *)
(* lines 100-118 of each call, statement by statement.  The statements of   *)
(* set_vision_config set the analyzer's attributes one at a time, in either *)
(* order.                                                                   *)

thread_frame == <<config, processors, gens, last, bench_vars>>

\* line 100: is_vlm holds, the call enters the vision-language branch
EnterVlmBranch(t) ==
  /\ pc[t] = "idle"
  /\ pc' = [pc EXCEPT ![t] = "check"]
  /\ UNCHANGED <<thread_frame, patch_size, vision_config, set_calls>>

\* lines 103-104: the attribute check, and the call of set_vision_config
CheckPatchSize(t) ==
  /\ pc[t] = "check"
  /\ IF NeedsVisionConfig(patch_size)
     THEN /\ pc' = [pc EXCEPT ![t] = "set"]
          /\ set_calls' = set_calls + 1
     ELSE /\ pc' = [pc EXCEPT ![t] = "attention"]
          /\ UNCHANGED set_calls
  /\ UNCHANGED <<thread_frame, patch_size, vision_config>>

\* set_vision_config assigns self.patch_size
WritePatchSize(t) ==
  /\ pc[t] \in {"set", "set_config_done"}
  /\ patch_size' = set_vision_config(ModelVisionConfig("model")).patch_size
  /\ pc' = [pc EXCEPT ![t] = IF pc[t] = "set" THEN "set_patch_done"
                               ELSE "attention"]
  /\ UNCHANGED <<thread_frame, vision_config, set_calls>>

\* set_vision_config assigns self.vision_config
WriteVisionConfig(t) ==
  /\ pc[t] \in {"set", "set_patch_done"}
  /\ vision_config' =
       set_vision_config(ModelVisionConfig("model")).vision_config
  /\ pc' = [pc EXCEPT ![t] = IF pc[t] = "set" THEN "set_config_done"
                               ELSE "attention"]
  /\ UNCHANGED <<thread_frame, patch_size, set_calls>>

\* lines 106-118: the tokens, then analyzer.process_attention_maps
ProcessAttentionMaps(t) ==
  /\ pc[t] = "attention"
  /\ pc' = [pc EXCEPT ![t] = "done"]
  /\ UNCHANGED <<thread_frame, patch_size, vision_config, set_calls>>

NextThreads ==
  \E t \in Threads :
    \/ EnterVlmBranch(t)
    \/ CheckPatchSize(t)
    \/ WritePatchSize(t)
    \/ WriteVisionConfig(t)
    \/ ProcessAttentionMaps(t)

SpecThreads == InitVlm /\ [][NextThreads]_vars

-----------------------------------------------------------------------------
(* reasoning_budget_control.py: VLLMClient.query_with_extra_wait *)

\* lines 131-144: the argument check, the stop sequence, the first prompt
QueryWithExtraWait(ps, nw) ==
  /\ qpc = "idle"
  /\ IF nw < 0
     THEN /\ qpc' = "raised"                     \* ValueError
          /\ UNCHANGED <<stop, num_waits, prompts, ind, wait_ind, input_text,
                         generated_texts, rounds>>
     ELSE /\ stop' = IF nw = 0 THEN None ELSE THINK_END_STR
          /\ num_waits' = nw
          /\ prompts' = ps
          /\ ind' = 0
          /\ wait_ind' = 0
          /\ input_text' = "str"
          /\ qpc' = IF ps = <<>> THEN "done" ELSE "loop"
          /\ UNCHANGED <<generated_texts, rounds>>
  /\ UNCHANGED <<config, patch_size, set_calls, processors, gens, last,
                 vision_config, pc>>

\* lines 147-176: one round of the wait loop; generated: model.generate
\* returned (it raised otherwise, which the except clause logs)
GenerateRound(generated) ==
  /\ qpc = "loop"
  /\ LET last_round == wait_ind = num_waits
         stop_used == IF last_round THEN None ELSE stop          \* 148-150
         \* 161: list + str raises TypeError once input_text is a list
         extended == generated /\ (last_round \/ input_text = "str")
         bound == generated_texts \/ generated                   \* 157
     IN /\ stop' = stop_used
        /\ rounds' = Append(rounds, [ind |-> ind, wait_ind |-> wait_ind,
                                     stop |-> stop_used, ok |-> extended])
        /\ generated_texts' = bound
        /\ IF ~last_round
           THEN /\ wait_ind' = wait_ind + 1
                /\ input_text' = IF extended THEN "list" ELSE input_text
                /\ UNCHANGED <<ind, qpc>>
           ELSE \* 176: generated_texts is read; unbound, it raises
                IF ~bound
                THEN /\ qpc' = "raised"
                     /\ UNCHANGED <<ind, wait_ind, input_text>>
                ELSE /\ ind' = ind + 1
                     /\ wait_ind' = 0
                     /\ input_text' = "str"                      \* 144
                     /\ qpc' = IF ind + 1 = Len(prompts) THEN "done"
                               ELSE "loop"
  /\ UNCHANGED <<num_waits, prompts>>
  /\ UNCHANGED <<config, patch_size, set_calls, processors, gens, last,
                 vision_config, pc>>

NextBench ==
  \/ \E n \in 0..MaxPrompts, nw \in -1..MaxWaits :
       QueryWithExtraWait([i \in 1..n |-> i], nw)
  \/ \E generated \in BOOLEAN : GenerateRound(generated)

InitBench ==
  Init /\ ctor_top_k = 0 /\ together_model = None /\ analyzer = None

SpecBench == InitBench /\ [][NextBench]_vars

-----
(* Properties *)

Returned == last.called /\ last.raised = None
Result == last.result[1]

\* C1: analyze_generation takes the VLM path iff the output has attentions
\* and the analyzer is a VLM analyzer; else the batched-serving path iff the
\* output has outputs; else the remote path iff a remote model id is
\* configured; else the dense-logits path.
C1_PathPriority ==
  last.called =>
    LET vlm == "attentions" \in last.output.attrs /\ analyzer = "VLM"
        served == "outputs" \in last.output.attrs
        remote == together_model \notin {None, ""}
    IN /\ last.path \in {"vlm", "vllm", "together", "hf"}
       /\ last.path = "vlm" <=> vlm
       /\ last.path = "vllm" <=> ~vlm /\ served
       /\ last.path = "together" <=> ~vlm /\ ~served /\ remote
       /\ last.path = "hf" <=> ~vlm /\ ~served /\ ~remote

\* an output with attentions and outputs, a VLM analyzer and a remote model
\* id: all three conditions hold and the VLM path is the one taken
C1_Witness ==
  /\ last.called
  /\ {"attentions", "outputs"} \subseteq last.output.attrs
  /\ analyzer = "VLM"
  /\ together_model = "model-id"
  /\ last.path = "vlm"

\* C2: on the dense-logits path without tokenizer or without processor the
\* call raises the configuration error with no step metrics computed, the
\* insight backend not called and no result.
C2_ConfigurationError ==
  (/\ last.called
   /\ last.path = "hf"
   /\ (last.tokenizer = None \/ last.processor.kind = "None"))
  => /\ last.raised = "ValueError"
     /\ last.metrics = <<>>
     /\ ~last.insight_called
     /\ last.result = <<>>

\* tokenizer=None with a processor that holds captured score tensors
C2_Witness ==
  /\ last.called
  /\ last.path = "hf"
  /\ last.tokenizer = None
  /\ last.captured # <<>>
  /\ analyzer # None
  /\ last.raised = "ValueError"

\* C3 (as claimed): when generate_overall_insight raises, analyze_generation
\* still returns a result with every computed step and no overall insight.
C3_InsightFailureRecovered ==
  (/\ last.called
   /\ last.insight_called
   /\ last.insight = "raise"
   /\ last.metrics # <<>>)
  => /\ last.raised = None
     /\ Len(last.result) = 1
     /\ Result.token_metrics = last.metrics
     /\ Result.overall_insight \notin {"text"}

KeptSteps(logprobs_data, k) ==
  SelectSeq(logprobs_data, LAMBDA d : Len(d) > 0 /\ k > 0)

C5_TopKFixed ==
  /\ [](top_k = IF together_model \notin {None, ""} THEN 5 ELSE ctor_top_k)
  /\ [][/\ top_k' = top_k
        /\ together_model' = together_model
        /\ analyzer' = analyzer]_vars

\* a capped estimator after get_logits_processor and analyze_generation
C5_Witness ==
  /\ together_model = "model-id"
  /\ ctor_top_k # top_k
  /\ top_k = 5
  /\ processors # <<>>
  /\ Returned
  /\ last.path = "together"

\* C6: on the remote path the result has one entry per emitted token, in
\* order, each with the chosen token as its only candidate (logit = the
\* log-probability, probability = exp of it), semantic_entropy 0 and
\* raw_entropy 1 - exp(logprob).
C6_RemoteSteps ==
  (Returned /\ last.path = "together")
  => LET r == last.output.remote
         m == Result.token_metrics
     IN /\ Len(m) = Len(r.tokens)
        /\ \A i \in 1..Len(m) :
             /\ m[i].token_predictions =
                  <<[token |-> r.tokens[i], token_id |-> r.token_ids[i],
                     logit |-> r.token_logprobs[i],
                     probability |-> ONE \div (2 ^ (0 - r.token_logprobs[i]))]>>
             /\ m[i].semantic_entropy = 0
             /\ m[i].raw_entropy = ONE - ONE \div (2 ^ (0 - r.token_logprobs[i]))

\* two tokens with different log-probabilities
C6_Witness ==
  /\ Returned
  /\ last.path = "together"
  /\ Len(Result.token_metrics) = 2
  /\ last.output.remote.token_logprobs = <<-1, -2>>
  /\ Result.token_metrics[2].raw_entropy > Result.token_metrics[1].raw_entropy

\* C7: on the batched-serving path every entry has at most
\* min(top_k, supplied) candidates, each a token the backend supplied for
\* that step with its log-probability, and no token twice.
C7_ServedCandidates ==
  (Returned /\ last.path = "vllm")
  => LET kept == KeptSteps(last.output.logprobs_data, top_k)
         m == Result.token_metrics
     IN \A i \in 1..Len(m) :
          LET tp == m[i].token_predictions
          IN /\ i <= Len(kept)
             /\ Len(tp) <= top_k
             /\ Len(tp) <= Len(kept[i])
             /\ \A a \in 1..Len(tp) :
                  /\ \E b \in 1..Len(kept[i]) :
                       /\ kept[i][b].token_id = tp[a].token_id
                       /\ kept[i][b].logprob = tp[a].logit
                  /\ \A b \in 1..Len(tp) :
                       a # b => tp[a].token_id # tp[b].token_id

\* top_k = 1 cuts a step with two supplied candidates to one
C7_Witness ==
  /\ Returned
  /\ last.path = "vllm"
  /\ top_k = 1
  /\ Len(last.output.logprobs_data) >= 1
  /\ Len(last.output.logprobs_data[1]) = 2
  /\ Len(Result.token_metrics[1].token_predictions) = 1

\* the dense-logits path ran over captured score tensors with every
\* collaborator in place
DenseCall ==
  /\ last.called
  /\ last.path = "hf"
  /\ last.tokenizer # None
  /\ last.processor.kind = "logits"
  /\ "sequences" \in last.output.attrs
  /\ analyzer # None
  /\ last.insight # "raise"

\* C8 (as claimed): on the dense-logits path a top_k above the vocabulary
\* size acts as top_k = vocabulary size: no error, and every step has one
\* candidate per vocabulary entry.
C8_TopKClamped ==
  (DenseCall /\ top_k > Vocab /\ last.captured # <<>>)
  => /\ last.raised = None
     /\ Len(last.result) = 1
     /\ \A i \in 1..Len(Result.token_metrics) :
          Len(Result.token_metrics[i].token_predictions) = Vocab

\* C9 (as claimed): analysing the latest generation that used the processor
\* gives one entry per generated token of that generation, in order, and
\* none from score tensors captured during an earlier generation.
C9_OnlyAnalysedGeneration ==
  (/\ DenseCall
   /\ last.raised = None
   /\ gens[last.output.gen].proc = last.processor.id
   /\ \A i \in 1..Len(last.captured) :
        last.captured[i].gen <= last.output.gen)
  => /\ Len(Result.token_metrics) = Len(last.output.sequences) - Len(Prompt)
     /\ \A i \in 1..Len(Result.token_metrics) :
          /\ last.captured[i].gen = last.output.gen
          /\ last.captured[i].step = i

\* C10 (as claimed): a returned result has an attention_data field, holding
\* the payload of process_attention_maps for a vision-language generation
\* and nothing on every other path.
C10_AttentionDataField ==
  Returned =>
    /\ "attention_data" \in DOMAIN Result
    /\ Result.attention_data =
         IF last.path = "vlm"
         THEN <<process_attention_maps(last.output.attentions,
                  SelectSeq([i \in 1..Len(last.output.sequences) |->
                               Decode(last.output.sequences[i], TRUE)],
                            LAMBDA t : t # <<>>))>>
         ELSE <<>>

\* C12: on the batched-serving path the candidates of an entry are the
\* step's supplied candidates in descending order of log-probability, equal
\* log-probabilities in insertion order, cut to the first top_k: every
\* candidate left out ranks after every one kept, and the probabilities are
\* non-increasing.
C12_StableSortedPrefix ==
  (Returned /\ last.path = "vllm")
  => LET kept == KeptSteps(last.output.logprobs_data, top_k)
         m == Result.token_metrics
         \* the n-th candidate a step inserts has token id n - 1
         Before(a, b) == a.logit > b.logit
                           \/ (a.logit = b.logit /\ a.token_id < b.token_id)
     IN \A i \in 1..Len(m) :
          LET tp == m[i].token_predictions
              supplied == kept[i]
          IN /\ Len(tp) = IF top_k < Len(supplied) THEN top_k
                          ELSE Len(supplied)
             /\ \A a, b \in 1..Len(tp) :
                  a < b => /\ Before(tp[a], tp[b])
                           /\ tp[a].probability >= tp[b].probability
             /\ \A c \in 1..Len(supplied) :
                  (\A a \in 1..Len(tp) : tp[a].token_id # supplied[c].token_id)
                  => \A a \in 1..Len(tp) :
                       Before(tp[a], [logit |-> supplied[c].logprob,
                                      token_id |-> supplied[c].token_id])

\* two candidates with the same log-probability and top_k = 1: the one the
\* backend inserted first is the one kept
C12_Witness ==
  /\ Returned
  /\ last.path = "vllm"
  /\ top_k = 1
  /\ Len(last.output.logprobs_data) >= 1
  /\ Len(last.output.logprobs_data[1]) = 2
  /\ last.output.logprobs_data[1][1].logprob
       = last.output.logprobs_data[1][2].logprob
  /\ Result.token_metrics[1].token_predictions[1].token_id = 0

\* C14 (as claimed): an estimator without an analyzer analyses a served
\* output: the call returns a result, and every entry has the Shannon
\* entropy of its candidates as raw_entropy and semantic_entropy 0.
C14_NoAnalyzerServed ==
  (last.called /\ last.path = "vllm" /\ analyzer = None)
  => /\ last.raised = None
     /\ Len(last.result) = 1
     /\ \A i \in 1..Len(Result.token_metrics) :
          LET e == Result.token_metrics[i]
          IN /\ e.semantic_entropy = 0
             /\ e.raw_entropy =
                  SumSeq([c \in 1..Len(e.token_predictions) |->
                            ShannonTerm(e.token_predictions[c].probability)])

\* C15 (as claimed): with num_waits >= 1, for every prompt each of the first
\* num_waits rounds runs with the end-of-thinking marker as the stop
\* sequence and the round of index num_waits with none; a negative num_waits
\* raises before any round.
C15_StopEveryPrompt ==
  /\ num_waits >= 1 =>
       \A r \in 1..Len(rounds) :
         rounds[r].stop = IF rounds[r].wait_ind < num_waits
                          THEN "</think>" ELSE None
  \* the call raised with no prompt list taken over: num_waits was negative
  /\ (qpc = "raised" /\ prompts = <<>>) => rounds = <<>>

\* the analyzer holds one attribute of the vision configuration and not the
\* other
Torn == (patch_size \in {Absent, None}) # (vision_config = Absent)

\* C11 (as claimed): when threads make their first vision-language calls
\* concurrently, no thread goes on to process attention maps while the
\* vision configuration is partially written.
C11_LazyInitGuarded ==
  \A t \in Threads : pc[t] = "attention" => ~Torn

\* C13: on the vision-language path an uninitialised patch configuration is
\* initialised before the attention maps are processed; over any sequence of
\* calls set_vision_config is invoked at most once, and only while the
\* configuration is uninitialised.
C13_LazyInitOnce ==
  /\ [](set_calls <= 1)
  /\ []((last.called /\ last.path = "vlm" /\ last.attention_data # <<>>)
          => patch_size \notin {Absent, None})
  /\ [][set_calls' # set_calls =>
          /\ patch_size \in {Absent, None}
          /\ patch_size' \notin {Absent, None}
          /\ set_calls' = set_calls + 1]_vars

\* the initialisation ran in an earlier call, and the latest call processed
\* its attention maps without running it again
C13_Witness ==
  /\ set_calls = 1
  /\ last.called
  /\ last.path = "vlm"
  /\ ~last.set_vision_config
  /\ last.attention_data # <<>>

====
